---- MODULE Spec2Model ----
(***************************************************************************)
(* Model of tika/server.go: the supervision of the Tika server process     *)
(* (Server.Start, Server.waitForStart) and the checksum-verified download  *)
(* of its jar (DownloadServer, validateFileMD5).                           *)
(*                                                                         *)
(* Two state machines share the module. Spec / SpecFair run one call of    *)
(* Start together with its environment (the caller's context, the         *)
(* os/exec watcher that kills the process when its context is done, the    *)
(* caller using the returned cancel function). SpecDownload runs calls of  *)
(* DownloadServer on one destination path.                                 *)
(***************************************************************************)
EXTENDS Naturals, Integers, Sequences, FiniteSets, TLC

VARIABLES
    \* ---- Server.Start ----
    parentErr,      \* Err() of the context the caller passed to Start
    ctxErr,         \* Err() of the context derived at line 75; "none" before it exists
    proc,           \* the java child process: "none", "running", "killed"
    pc,             \* position of Start / waitForStart
    waitErr,        \* the error waitForStart returned (err of line 83)
    probeCount,     \* number of c.Version(ctx) calls made by waitForStart, up to MaxProbes
    enteredDone,    \* ctx was already done when waitForStart was entered
    cancelBy,       \* which call sites have invoked the derived cancel()
    retCancel,      \* first result of Start: "unset", "nil", "cancel"
    retErr,         \* second result of Start
    teardownCalls,  \* calls the caller made of the value Start returned
    panicked,       \* the caller called a nil func()
    \* ---- DownloadServer ----
    file,           \* the file at path
    dirWritable,    \* entries of path's directory can be created and removed
    dpc,            \* position of DownloadServer
    version,        \* argument of the running / last call
    body,           \* response body of the GET
    status,         \* response status of the GET
    netCalls,       \* HTTP GETs issued by the running / last call
    fsOps,          \* os.Create / io.Copy / os.Remove calls of the running / last call
    file0,          \* the file when the running / last call was entered
    dErr,           \* result of the last call
    prev,           \* the call before the running / last one: its version,
                    \* whether it returned nil, and the GETs it issued
    \* ---- validateFileMD5 and NewServer called on their own ----
    vFile,          \* the file at the path given to validateFileMD5
    vWant,          \* its wantH argument
    vRes,           \* what it returned: <<ok, md5>>, or <<>> before the call
    nsJar,          \* the jar argument of NewServer
    nsPort,         \* its port argument, a sequence of characters
    nsRes           \* what it returned

startVars == <<parentErr, ctxErr, proc, pc, waitErr, probeCount, enteredDone,
               cancelBy, retCancel, retErr, teardownCalls, panicked>>
downloadVars == <<file, dirWritable, dpc, version, body, status, netCalls, fsOps,
                  file0, dErr, prev>>
pureVars == <<vFile, vWant, vRes, nsJar, nsPort, nsRes>>
vars == <<startVars, downloadVars, pureVars>>

(***************************************************************************)
(* Bounds.                                                                 *)
(***************************************************************************)
MaxProbes == 2          \* probes one waitForStart may issue
MaxTeardownCalls == 2   \* times the caller calls what Start returned
MaxLen == 3             \* longest file / response body, in bytes
MaxPortLen == 3         \* longest port string given to NewServer, in characters

(***************************************************************************)
(* Errors. An error built by fmt.Errorf is the record of what its text     *)
(* holds: the format used (kind), the %v cause and the %s output.          *)
(***************************************************************************)
CtxErrors == {"context canceled", "context deadline exceeded"}
Outputs == {"", "java.net.BindException"}

Err(kind, cause, out) == [kind |-> kind, cause |-> cause, out |-> out]
ErrUnset == Err("unset", "", "")
ErrNil == Err("nil", "", "")

(***************************************************************************)
(* context.WithCancel (line 75). The derived context starts with the       *)
(* parent's Err(); cancel() sets Err() to Canceled unless the context is   *)
(* already done, and a parent that becomes done makes the derived context  *)
(* done with the parent's error.                                           *)
(***************************************************************************)
WithCancel(parent) == parent

Cancel(e) == IF e = "nil" THEN "context canceled" ELSE e

\* A context made from context.Background() instead of the caller's: the
\* parent's end does not reach it.
Propagate_Detached(e, parent) == e

Propagate(e, parent) == IF e = "nil" THEN parent ELSE e

Done(e) == e \in CtxErrors

\* What cmd.Start() can fail with: the exec error, or the context's error
\* when the context is already done.
LaunchErrors(e) == {"exec: \"java\": executable file not found"} \cup ({e} \cap CtxErrors)

(***************************************************************************)
(* Server.Start, lines 74-93.                                              *)
(***************************************************************************)
\* lines 75-76: derive the cancellable context and build the command.
Start_WithCancel ==
    /\ pc = "idle"
    /\ ctxErr' = WithCancel(parentErr)
    /\ pc' = "cmdStart"
    /\ UNCHANGED <<parentErr, proc, waitErr, probeCount, enteredDone, cancelBy,
                   retCancel, retErr, teardownCalls, panicked>>
    /\ UNCHANGED <<downloadVars, pureVars>>

\* lines 78-81 with the cancel() of line 79 left out.
Start_LaunchFail_NoCancel ==
    /\ pc = "cmdStart"
    /\ \E e \in LaunchErrors(ctxErr) :
          retErr' = Err("launch", e, "")
    /\ retCancel' = "nil"
    /\ pc' = "returned"
    /\ UNCHANGED <<parentErr, ctxErr, proc, waitErr, probeCount, enteredDone,
                   cancelBy, teardownCalls, panicked>>
    /\ UNCHANGED <<downloadVars, pureVars>>

\* lines 78-81 with the return of line 80 left out: after cancel() the
\* code goes on to waitForStart.
Start_LaunchFail_ThenWait ==
    /\ pc = "cmdStart"
    /\ ctxErr' = Cancel(ctxErr)
    /\ cancelBy' = cancelBy \cup {"launch"}
    /\ enteredDone' = TRUE
    /\ pc' = "select"
    /\ UNCHANGED <<parentErr, proc, waitErr, probeCount, retCancel, retErr,
                   teardownCalls, panicked>>
    /\ UNCHANGED <<downloadVars, pureVars>>

\* lines 78-81: cmd.Start() fails; cancel(), return nil, err.
Start_LaunchFail ==
    /\ pc = "cmdStart"
    /\ \E e \in LaunchErrors(ctxErr) :
          retErr' = Err("launch", e, "")
    /\ ctxErr' = Cancel(ctxErr)
    /\ cancelBy' = cancelBy \cup {"launch"}
    /\ retCancel' = "nil"
    /\ pc' = "returned"
    /\ UNCHANGED <<parentErr, proc, waitErr, probeCount, enteredDone,
                   teardownCalls, panicked>>
    /\ UNCHANGED <<downloadVars, pureVars>>

\* lines 78, 83, 98: cmd.Start() succeeds and waitForStart is entered.
Start_LaunchOk ==
    /\ pc = "cmdStart"
    /\ proc' = "running"
    /\ enteredDone' = Done(ctxErr)
    /\ pc' = "select"
    /\ UNCHANGED <<parentErr, ctxErr, waitErr, probeCount, cancelBy, retCancel,
                   retErr, teardownCalls, panicked>>
    /\ UNCHANGED <<downloadVars, pureVars>>

(***************************************************************************)
(* Server.waitForStart, lines 97-109. The select has two cases; when both  *)
(* channels are ready Go picks one of them pseudo-randomly. The channel of *)
(* time.Tick is made anew at every iteration and is ready once 500ms have  *)
(* passed: the model leaves time out, so the tick case can always be taken.*)
(***************************************************************************)
\* lines 101-102: the tick case; the probe c.Version(ctx) is issued. The
\* loop has no limit of its own: probes are counted up to MaxProbes, which
\* stands for that many or more.
waitForStart_Tick ==
    /\ pc = "select"
    /\ probeCount' = IF probeCount < MaxProbes THEN probeCount + 1 ELSE probeCount
    /\ pc' = "probe"
    /\ UNCHANGED <<parentErr, ctxErr, proc, waitErr, enteredDone, cancelBy,
                   retCancel, retErr, teardownCalls, panicked>>
    /\ UNCHANGED <<downloadVars, pureVars>>

\* lines 105-106 as a check made once, before the first tick: the
\* ctx.Done() case is taken only when the context was done already when the
\* loop was entered.
waitForStart_Done_AtEntryOnly ==
    /\ pc = "select"
    /\ Done(ctxErr)
    /\ enteredDone
    /\ probeCount = 0
    /\ waitErr' = ctxErr
    /\ pc' = "waitFailed"
    /\ UNCHANGED <<parentErr, ctxErr, proc, probeCount, enteredDone, cancelBy,
                   retCancel, retErr, teardownCalls, panicked>>
    /\ UNCHANGED <<downloadVars, pureVars>>

\* lines 105-106: the ctx.Done() case; return ctx.Err().
waitForStart_Done ==
    /\ pc = "select"
    /\ Done(ctxErr)
    /\ waitErr' = ctxErr
    /\ pc' = "waitFailed"
    /\ UNCHANGED <<parentErr, ctxErr, proc, probeCount, enteredDone, cancelBy,
                   retCancel, retErr, teardownCalls, panicked>>
    /\ UNCHANGED <<downloadVars, pureVars>>

\* Client.Version(ctx): succeeds once the server answers, which takes a
\* live process and a context that is not done.
VersionSucceeds == proc = "running" /\ ~Done(ctxErr)

\* lines 102-103: the probe succeeds; waitForStart returns nil.
waitForStart_ProbeOk ==
    /\ pc = "probe"
    /\ VersionSucceeds
    /\ waitErr' = "nil"
    /\ pc' = "ready"
    /\ UNCHANGED <<parentErr, ctxErr, proc, probeCount, enteredDone, cancelBy,
                   retCancel, retErr, teardownCalls, panicked>>
    /\ UNCHANGED <<downloadVars, pureVars>>

\* line 102 with the test inverted: a failed probe ends the loop with nil.
waitForStart_ProbeFail_ReturnsNil ==
    /\ pc = "probe"
    /\ waitErr' = "nil"
    /\ pc' = "ready"
    /\ UNCHANGED <<parentErr, ctxErr, proc, probeCount, enteredDone, cancelBy,
                   retCancel, retErr, teardownCalls, panicked>>
    /\ UNCHANGED <<downloadVars, pureVars>>

\* line 102: the probe fails; next iteration of the loop.
waitForStart_ProbeFail ==
    /\ pc = "probe"
    /\ pc' = "select"
    /\ UNCHANGED <<parentErr, ctxErr, proc, waitErr, probeCount, enteredDone,
                   cancelBy, retCancel, retErr, teardownCalls, panicked>>
    /\ UNCHANGED <<downloadVars, pureVars>>

\* line 92 written as "defer cancel()": the scope is cancelled on success too.
Start_Ready_DeferCancel ==
    /\ pc = "ready"
    /\ ctxErr' = Cancel(ctxErr)
    /\ retCancel' = "cancel"
    /\ retErr' = ErrNil
    /\ pc' = "returned"
    /\ UNCHANGED <<parentErr, proc, waitErr, probeCount, enteredDone, cancelBy,
                   teardownCalls, panicked>>
    /\ UNCHANGED <<downloadVars, pureVars>>

\* line 92 returning the zero value instead of cancel.
Start_Ready_NilCancel ==
    /\ pc = "ready"
    /\ retCancel' = "nil"
    /\ retErr' = ErrNil
    /\ pc' = "returned"
    /\ UNCHANGED <<parentErr, ctxErr, proc, waitErr, probeCount, enteredDone,
                   cancelBy, teardownCalls, panicked>>
    /\ UNCHANGED <<downloadVars, pureVars>>

\* line 92: return cancel, nil.
Start_Ready ==
    /\ pc = "ready"
    /\ retCancel' = "cancel"
    /\ retErr' = ErrNil
    /\ pc' = "returned"
    /\ UNCHANGED <<parentErr, ctxErr, proc, waitErr, probeCount, enteredDone,
                   cancelBy, teardownCalls, panicked>>
    /\ UNCHANGED <<downloadVars, pureVars>>

\* lines 83-85 with the cancel() of line 84 left out: the output is read
\* with no teardown before it.
Start_CancelOnFail_Skip ==
    /\ pc = "waitFailed"
    /\ pc' = "capture"
    /\ UNCHANGED <<parentErr, ctxErr, proc, waitErr, probeCount, enteredDone,
                   cancelBy, retCancel, retErr, teardownCalls, panicked>>
    /\ UNCHANGED <<downloadVars, pureVars>>

\* lines 83-84: waitForStart failed; cancel().
Start_CancelOnFail ==
    /\ pc = "waitFailed"
    /\ ctxErr' = Cancel(ctxErr)
    /\ cancelBy' = cancelBy \cup {"readiness"}
    /\ pc' = "capture"
    /\ UNCHANGED <<parentErr, proc, waitErr, probeCount, enteredDone, retCancel,
                   retErr, teardownCalls, panicked>>
    /\ UNCHANGED <<downloadVars, pureVars>>

\* lines 85-88 returning cancel beside the error instead of nil.
Start_CaptureFail_ReturnsCancel ==
    /\ pc = "capture"
    /\ retCancel' = "cancel"
    /\ retErr' = Err("error reading output", "exec: already started", "")
    /\ pc' = "returned"
    /\ UNCHANGED <<parentErr, ctxErr, proc, waitErr, probeCount, enteredDone,
                   cancelBy, teardownCalls, panicked>>
    /\ UNCHANGED <<downloadVars, pureVars>>

\* lines 85-88: cmd.CombinedOutput() fails; only that error is returned.
Start_CaptureFail ==
    /\ pc = "capture"
    /\ retCancel' = "nil"
    /\ retErr' = Err("error reading output", "exec: already started", "")
    /\ pc' = "returned"
    /\ UNCHANGED <<parentErr, ctxErr, proc, waitErr, probeCount, enteredDone,
                   cancelBy, teardownCalls, panicked>>
    /\ UNCHANGED <<downloadVars, pureVars>>

\* lines 85, 90: the output is read; the error holds waitForStart's error
\* and the output.
Start_CaptureOk ==
    /\ pc = "capture"
    /\ retCancel' = "nil"
    /\ \E out \in Outputs :
          retErr' = Err("error starting server", waitErr, out)
    /\ pc' = "returned"
    /\ UNCHANGED <<parentErr, ctxErr, proc, waitErr, probeCount, enteredDone,
                   cancelBy, teardownCalls, panicked>>
    /\ UNCHANGED <<downloadVars, pureVars>>

(***************************************************************************)
(* The environment of Start.                                               *)
(***************************************************************************)
\* The caller's context is cancelled or its deadline passes; a derived
\* context that exists and is not yet done becomes done with the same error.
ParentDone ==
    /\ parentErr = "nil"
    /\ ~panicked
    /\ \E e \in CtxErrors :
          /\ parentErr' = e
          /\ ctxErr' = IF ctxErr = "none" THEN "none" ELSE Propagate(ctxErr, e)
    /\ UNCHANGED <<proc, pc, waitErr, probeCount, enteredDone, cancelBy,
                   retCancel, retErr, teardownCalls, panicked>>
    /\ UNCHANGED <<downloadVars, pureVars>>

\* exec.CommandContext (line 76): the process is killed once ctx is done.
KillProcess ==
    /\ proc = "running"
    /\ Done(ctxErr)
    /\ proc' = "killed"
    /\ UNCHANGED <<parentErr, ctxErr, pc, waitErr, probeCount, enteredDone,
                   cancelBy, retCancel, retErr, teardownCalls, panicked>>
    /\ UNCHANGED <<downloadVars, pureVars>>

\* The caller calls the func() Start handed back. Calling a nil func
\* panics; calling cancel cancels the derived context.
CallTeardown ==
    /\ pc = "returned"
    /\ ~panicked
    /\ teardownCalls < MaxTeardownCalls
    /\ teardownCalls' = teardownCalls + 1
    /\ IF retCancel = "nil"
          THEN panicked' = TRUE /\ UNCHANGED ctxErr
          ELSE ctxErr' = Cancel(ctxErr) /\ UNCHANGED panicked
    /\ UNCHANGED <<parentErr, proc, pc, waitErr, probeCount, enteredDone,
                   cancelBy, retCancel, retErr>>
    /\ UNCHANGED <<downloadVars, pureVars>>

StartInit ==
    /\ parentErr = "nil"
    /\ ctxErr = "none"
    /\ proc = "none"
    /\ pc = "idle"
    /\ waitErr = "nil"
    /\ probeCount = 0
    /\ enteredDone = FALSE
    /\ cancelBy = {}
    /\ retCancel = "unset"
    /\ retErr = ErrUnset
    /\ teardownCalls = 0
    /\ panicked = FALSE

(***************************************************************************)
(* Files and digests. A file is a short sequence of bytes with the access  *)
(* its path allows: "rw" read and write, "r" read only, "w" write only     *)
(* (os.Open fails), "eio" (os.Open succeeds and reading fails, as for a    *)
(* directory or a bad medium).                                             *)
(***************************************************************************)
Bytes == {0, 1}
Contents == UNION {[1..n -> Bytes] : n \in 0..MaxLen}
Modes == {"rw", "r", "w", "eio"}

Absent == [exists |-> FALSE, data |-> <<>>, mode |-> "rw"]
Files == {Absent} \cup {[exists |-> TRUE, data |-> d, mode |-> m] : d \in Contents, m \in Modes}

CanOpen(f) == f.exists /\ f.mode \in {"rw", "r", "eio"}
CanRead(f) == f.mode \in {"rw", "r"}
CanWrite(f) == f.mode \in {"rw", "w", "eio"}

\* md5.New() / io.Copy(h, f) / h.Sum(nil), lines 118-122: a digest folded
\* over the bytes in order. The model's digest has 4 bits where MD5 has
\* 128, so distinct contents can share a digest, as with MD5.
RECURSIVE Sum(_)
Sum(d) ==
    IF d = <<>> THEN 13
    ELSE (Sum(SubSeq(d, 1, Len(d) - 1)) * 5 + d[Len(d)] + 1) % 16

\* fmt.Sprintf("%x", ...), line 122: the digest in lower-case hex.
HexDigits == <<"0", "1", "2", "3", "4", "5", "6", "7",
               "8", "9", "a", "b", "c", "d", "e", "f">>
Sprintf_x(n) == HexDigits[n + 1]

\* lines 119-121 left out: a failed read is not noticed and the digest of
\* what was read is compared.
validateFileMD5_IgnoreReadErr(f, wantH) ==
    IF ~CanOpen(f) THEN <<FALSE, "">>
    ELSE LET md5 == Sprintf_x(Sum(f.data))
         IN  <<md5 = wantH, md5>>

\* validateFileMD5, lines 111-124: <<ok, md5>>.
validateFileMD5(f, wantH) ==
    IF ~CanOpen(f) THEN <<FALSE, "">>
    ELSE IF ~CanRead(f) THEN <<FALSE, "">>
    ELSE LET md5 == Sprintf_x(Sum(f.data))
         IN  <<md5 = wantH, md5>>

\* Versions, lines 130-134, and a tag that is none of them.
Version114 == "1.14"
Version115 == "1.15"
Version116 == "1.16"
Versions == {Version114, Version115, Version116, "9.99"}

\* md5s, lines 136-140: the table holds the digest of each version's jar
\* (here the first hex digit of the MD5 in the source); a tag that is not
\* a key yields the zero value "".
md5s(v) ==
    CASE v = Version114 -> "3"
      [] v = Version115 -> "8"
      [] v = Version116 -> "6"
      [] OTHER -> ""

\* line 149 with a default for tags that are not in the table.
Lookup_Default(v) == IF md5s(v) = "" THEN md5s(Version114) ELSE md5s(v)

\* line 149: wantH := md5s[version].
Lookup(v) == md5s(v)

\* lines 154-155 without the checksum: any existing file is taken as valid.
AlreadyValid_StatOnly(f, wantH) == f.exists

\* lines 154-155 never short-circuiting.
AlreadyValid_Never(f, wantH) == FALSE

\* lines 154-155: os.Stat succeeds and the checksum matches.
AlreadyValid(f, wantH) == f.exists /\ validateFileMD5(f, wantH)[1]

\* os.Create, line 159: truncates a writable file, or creates the file
\* when the directory allows it.
CreateSucceeds(f) == IF f.exists THEN CanWrite(f) ELSE dirWritable
Created(f) == [exists |-> TRUE, data |-> <<>>, mode |-> IF f.exists THEN f.mode ELSE "rw"]

GetErrors == {"dial tcp: connection refused", "context canceled"}
Statuses == {200, 404}

(***************************************************************************)
(* DownloadServer, lines 148-183.                                          *)
(***************************************************************************)
\* A call is entered: the arguments and what the call finds are recorded.
Enter(v) ==
    /\ dpc \in {"idle", "returned"}
    /\ version' = v
    /\ prev' = [version |-> version, ok |-> (dErr = ErrNil), gets |-> netCalls]
    /\ file0' = file
    /\ netCalls' = 0
    /\ fsOps' = 0
    /\ body' = <<>>
    /\ status' = 0

\* lines 149-152: the version is not in the table.
DownloadServer_Unsupported ==
    \E v \in Versions :
        /\ Enter(v)
        /\ Lookup(v) = ""
        /\ dErr' = Err("unsupported Tika version", v, "")
        /\ dpc' = "returned"
        /\ UNCHANGED <<file, dirWritable>>
        /\ UNCHANGED <<startVars, pureVars>>

\* lines 154-157: the file is there with the right checksum.
DownloadServer_ShortCircuit ==
    \E v \in Versions :
        /\ Enter(v)
        /\ Lookup(v) # ""
        /\ AlreadyValid(file, Lookup(v))
        /\ dErr' = ErrNil
        /\ dpc' = "returned"
        /\ UNCHANGED <<file, dirWritable>>
        /\ UNCHANGED <<startVars, pureVars>>

\* lines 149-158 falling through to the download.
DownloadServer_NeedsDownload ==
    \E v \in Versions :
        /\ Enter(v)
        /\ Lookup(v) # ""
        /\ ~AlreadyValid(file, Lookup(v))
        /\ dErr' = ErrUnset
        /\ dpc' = "create"
        /\ UNCHANGED <<file, dirWritable>>
        /\ UNCHANGED <<startVars, pureVars>>

\* lines 159-162: os.Create fails.
DownloadServer_CreateFail ==
    /\ dpc = "create"
    /\ ~CreateSucceeds(file)
    /\ fsOps' = fsOps + 1
    /\ dErr' = Err("error creating file", "permission denied", "")
    /\ dpc' = "returned"
    /\ UNCHANGED <<file, dirWritable, version, body, status, netCalls, file0,
                   prev>>
    /\ UNCHANGED <<startVars, pureVars>>

\* line 159: os.Create makes or truncates the file.
DownloadServer_Create ==
    /\ dpc = "create"
    /\ CreateSucceeds(file)
    /\ fsOps' = fsOps + 1
    /\ file' = Created(file)
    /\ dpc' = "get"
    /\ UNCHANGED <<dirWritable, version, body, status, netCalls, file0, dErr, prev>>
    /\ UNCHANGED <<startVars, pureVars>>

\* lines 165-169: ctxhttp.Get returns an error.
DownloadServer_GetFail ==
    /\ dpc = "get"
    /\ netCalls' = netCalls + 1
    /\ \E e \in GetErrors :
          dErr' = Err("unable to download", e, "")
    /\ dpc' = "returned"
    /\ UNCHANGED <<file, dirWritable, version, body, status, fsOps, file0, prev>>
    /\ UNCHANGED <<startVars, pureVars>>

\* lines 165-170: ctxhttp.Get returns a response, whatever its status.
DownloadServer_Get ==
    /\ dpc = "get"
    /\ netCalls' = netCalls + 1
    /\ \E b \in Contents, st \in Statuses :
          /\ body' = b
          /\ status' = st
    /\ dpc' = "copy"
    /\ UNCHANGED <<file, dirWritable, version, fsOps, file0, dErr, prev>>
    /\ UNCHANGED <<startVars, pureVars>>

\* lines 172-174: io.Copy fails after writing some of the body.
DownloadServer_CopyFail ==
    /\ dpc = "copy"
    /\ fsOps' = fsOps + 1
    /\ \E k \in 0..Len(body) :
          file' = [file EXCEPT !.data = SubSeq(body, 1, k)]
    /\ dErr' = Err("error saving download", "unexpected EOF", "")
    /\ dpc' = "returned"
    /\ UNCHANGED <<dirWritable, version, body, status, netCalls, file0, prev>>
    /\ UNCHANGED <<startVars, pureVars>>

\* line 172: io.Copy writes the whole body.
DownloadServer_Copy ==
    /\ dpc = "copy"
    /\ fsOps' = fsOps + 1
    /\ file' = [file EXCEPT !.data = body]
    /\ dpc' = "validate"
    /\ UNCHANGED <<dirWritable, version, body, status, netCalls, file0, dErr, prev>>
    /\ UNCHANGED <<startVars, pureVars>>

\* lines 176-181 with the os.Remove left out.
DownloadServer_Mismatch_NoRemove ==
    /\ dpc = "validate"
    /\ ~validateFileMD5(file, Lookup(version))[1]
    /\ dErr' = Err("invalid md5", validateFileMD5(file, Lookup(version))[2], "")
    /\ dpc' = "returned"
    /\ UNCHANGED <<file, dirWritable, version, body, status, netCalls, fsOps,
                   file0, prev>>
    /\ UNCHANGED <<startVars, pureVars>>

\* lines 176-181 with wantH in place of md5 in both messages: the error
\* names the hash that was expected.
DownloadServer_Mismatch_WantedHash ==
    /\ dpc = "validate"
    /\ ~validateFileMD5(file, Lookup(version))[1]
    /\ fsOps' = fsOps + 1
    /\ IF dirWritable
          THEN /\ file' = Absent
               /\ dErr' = Err("invalid md5", Lookup(version), "")
          ELSE /\ file' = file
               /\ dErr' = Err("invalid md5: error removing", Lookup(version),
                              "permission denied")
    /\ dpc' = "returned"
    /\ UNCHANGED <<dirWritable, version, body, status, netCalls, file0, prev>>
    /\ UNCHANGED <<startVars, pureVars>>

\* lines 176-181: the checksum differs; the file is removed, or the
\* removal fails and its error is added.
DownloadServer_Mismatch ==
    /\ dpc = "validate"
    /\ ~validateFileMD5(file, Lookup(version))[1]
    /\ fsOps' = fsOps + 1
    /\ IF dirWritable
          THEN /\ file' = Absent
               /\ dErr' = Err("invalid md5",
                              validateFileMD5(file, Lookup(version))[2], "")
          ELSE /\ file' = file
               /\ dErr' = Err("invalid md5: error removing",
                              validateFileMD5(file, Lookup(version))[2],
                              "permission denied")
    /\ dpc' = "returned"
    /\ UNCHANGED <<dirWritable, version, body, status, netCalls, file0, prev>>
    /\ UNCHANGED <<startVars, pureVars>>

\* lines 176, 182: the checksum matches; return nil.
DownloadServer_Verified ==
    /\ dpc = "validate"
    /\ validateFileMD5(file, Lookup(version))[1]
    /\ dErr' = ErrNil
    /\ dpc' = "returned"
    /\ UNCHANGED <<file, dirWritable, version, body, status, netCalls, fsOps,
                   file0, prev>>
    /\ UNCHANGED <<startVars, pureVars>>

DownloadIdle ==
    /\ dpc = "idle"
    /\ version = ""
    /\ body = <<>>
    /\ status = 0
    /\ netCalls = 0
    /\ fsOps = 0
    /\ dErr = ErrUnset
    /\ prev = [version |-> "", ok |-> FALSE, gets |-> 0]

DownloadInit ==
    /\ file \in Files
    /\ dirWritable \in BOOLEAN
    /\ file0 = file
    /\ DownloadIdle

(***************************************************************************)
(* validateFileMD5 called on its own, lines 111-124.                       *)
(***************************************************************************)
\* The digests a caller may ask for: every hex digest and the empty string.
WantedHashes == {HexDigits[i] : i \in 1..16} \cup {""}

validateFileMD5_Call ==
    /\ vRes = <<>>
    /\ vRes' = validateFileMD5(vFile, vWant)
    /\ UNCHANGED <<vFile, vWant, nsJar, nsPort, nsRes>>
    /\ UNCHANGED <<startVars, downloadVars>>

(***************************************************************************)
(* NewServer, lines 48-67. Strings that the code takes apart are sequences *)
(* of characters; the fixed text "http://localhost:" is one element.       *)
(***************************************************************************)
Jars == {"", "tika-server.jar"}
PortChars == {"9", " ", "#"}
Ports == UNION {[1..n -> PortChars] : n \in 0..MaxPortLen}
DefaultPort == <<"9", "9", "9", "8">>
Localhost == <<"http://localhost:">>

Range(q) == {q[i] : i \in 1..Len(q)}

\* The place of the first "#" in q, or 0.
FirstHash(q) ==
    IF "#" \in Range(q)
       THEN CHOOSE i \in 1..Len(q) : q[i] = "#" /\ \A j \in 1..(i - 1) : q[j] # "#"
       ELSE 0

\* url.Parse, line 61: what follows the first "#" is the fragment; the
\* rest is scheme and host, and a host with a space in it is an error.
url_Parse(raw) ==
    LET i == FirstHash(raw)
        rest == IF i = 0 THEN raw ELSE SubSeq(raw, 1, i - 1)
        frag == IF i = 0 THEN <<>> ELSE SubSeq(raw, i + 1, Len(raw))
    IN  IF " " \in Range(rest)
           THEN [ok |-> FALSE, rest |-> <<>>, fragment |-> <<>>]
           ELSE [ok |-> TRUE, rest |-> rest, fragment |-> frag]

\* How URL.String writes a character of the fragment.
EscapeFragment(c) == IF c = " " THEN "%20" ELSE IF c = "#" THEN "%23" ELSE c

\* u.String(), line 65: scheme and host, then "#" and the escaped fragment
\* when the fragment is not empty.
url_String(u) ==
    u.rest \o (IF u.fragment = <<>>
                  THEN <<>>
                  ELSE <<"#">> \o [i \in 1..Len(u.fragment) |-> EscapeFragment(u.fragment[i])])

NoServer == [err |-> "unset", jar |-> "", port |-> <<>>, url |-> <<>>]

\* lines 49-67 with the default of lines 53-55 left out.
NewServer_NoDefault(jar, port) ==
    IF jar = "" THEN [NoServer EXCEPT !.err = "no jar file specified"]
    ELSE LET u == url_Parse(Localhost \o port)
         IN  IF ~u.ok
                THEN [NoServer EXCEPT !.err = "invalid port"]
                ELSE [err |-> "nil", jar |-> jar, port |-> port, url |-> url_String(u)]

\* NewServer, lines 49-67.
NewServer(jar, port) ==
    IF jar = "" THEN [NoServer EXCEPT !.err = "no jar file specified"]
    ELSE LET p == IF port = <<>> THEN DefaultPort ELSE port
             u == url_Parse(Localhost \o p)
         IN  IF ~u.ok
                THEN [NoServer EXCEPT !.err = "invalid port"]
                ELSE [err |-> "nil", jar |-> jar, port |-> p, url |-> url_String(u)]

NewServer_Call ==
    /\ nsRes = NoServer
    /\ nsRes' = NewServer(nsJar, nsPort)
    /\ UNCHANGED <<vFile, vWant, vRes, nsJar, nsPort>>
    /\ UNCHANGED <<startVars, downloadVars>>

\* Neither function has been called.
PureIdle ==
    /\ vFile = Absent
    /\ vWant = ""
    /\ vRes = <<>>
    /\ nsJar = ""
    /\ nsPort = <<>>
    /\ nsRes = NoServer

(***************************************************************************)
(* Specifications.                                                         *)
(***************************************************************************)
StartNext ==
    \/ Start_WithCancel
    \/ Start_LaunchFail
    \/ Start_LaunchOk
    \/ waitForStart_Tick
    \/ waitForStart_Done
    \/ waitForStart_ProbeOk
    \/ waitForStart_ProbeFail
    \/ Start_Ready
    \/ Start_CancelOnFail
    \/ Start_CaptureFail
    \/ Start_CaptureOk
    \/ ParentDone
    \/ KillProcess
    \/ CallTeardown

DownloadNext ==
    \/ DownloadServer_Unsupported
    \/ DownloadServer_ShortCircuit
    \/ DownloadServer_NeedsDownload
    \/ DownloadServer_CreateFail
    \/ DownloadServer_Create
    \/ DownloadServer_GetFail
    \/ DownloadServer_Get
    \/ DownloadServer_CopyFail
    \/ DownloadServer_Copy
    \/ DownloadServer_Mismatch
    \/ DownloadServer_Verified

\* One call of Start with its environment; no download is running.
Init ==
    /\ StartInit
    /\ file = Absent
    /\ dirWritable = TRUE
    /\ file0 = Absent
    /\ DownloadIdle
    /\ PureIdle

Next == StartNext

Spec == Init /\ [][Next]_vars

\* The same, with the scheduling the Go runtime gives: Start keeps running
\* until it returns, a probe returns, the select takes the ctx.Done() case
\* within finitely many rounds once it is ready, and the os/exec watcher
\* kills the process of a done context.
Fairness ==
    /\ WF_vars(Start_LaunchFail \/ Start_LaunchOk)
    /\ WF_vars(waitForStart_ProbeOk \/ waitForStart_ProbeFail)
    /\ SF_vars(waitForStart_Done)
    /\ WF_vars(Start_Ready)
    /\ WF_vars(Start_CancelOnFail)
    /\ WF_vars(Start_CaptureFail \/ Start_CaptureOk)
    /\ WF_vars(KillProcess)

SpecFair == Spec /\ Fairness

\* Any number of calls of DownloadServer in a row on one path; no server is
\* started.
InitDownload == DownloadInit /\ StartInit /\ PureIdle

NextDownload == DownloadNext

SpecDownload == InitDownload /\ [][NextDownload]_vars

\* validateFileMD5 applied to every file and wanted digest of the bounds.
InitValidate ==
    /\ StartInit
    /\ file = Absent /\ dirWritable = TRUE /\ file0 = Absent /\ DownloadIdle
    /\ vFile \in Files
    /\ vWant \in WantedHashes
    /\ vRes = <<>>
    /\ nsJar = "" /\ nsPort = <<>> /\ nsRes = NoServer

NextValidate == validateFileMD5_Call

SpecValidate == InitValidate /\ [][NextValidate]_vars

\* NewServer applied to every jar and port of the bounds.
InitNewServer ==
    /\ StartInit
    /\ file = Absent /\ dirWritable = TRUE /\ file0 = Absent /\ DownloadIdle
    /\ vFile = Absent /\ vWant = "" /\ vRes = <<>>
    /\ nsJar \in Jars
    /\ nsPort \in Ports
    /\ nsRes = NoServer

NextNewServer == NewServer_Call

SpecNewServer == InitNewServer /\ [][NextNewServer]_vars

(***************************************************************************)
(* Properties of Server.Start and Server.waitForStart.                     *)
(***************************************************************************)
Returned == pc = "returned"
FailedStart == Returned /\ retErr # ErrNil
SuccessfulStart == Returned /\ retErr = ErrNil
ReadinessFailed == Returned /\ waitErr \in CtxErrors

\* What the caller and the rest of the program can observe of a Start.
observable == <<parentErr, ctxErr, proc, pc, waitErr, cancelBy, retCancel, retErr>>

\* C1: a Start that returns an error has invoked the derived cancel() before
\* it returned, so the derived context is done; and a process that Start
\* launched is then no longer running once the watcher has acted on it.
C1_FailedStartTearsDown ==
    /\ [](FailedStart => (cancelBy # {} /\ Done(ctxErr)))
    /\ (FailedStart ~> proc # "running")

\* C1: a Start that launched the process failed and the process is killed.
C1_Witness == FailedStart /\ cancelBy = {"readiness"} /\ proc = "killed"

\* C3: after a successful Start the process runs for as long as neither the
\* caller has called the returned teardown nor the caller's context is done;
\* once the teardown has been called the process gets killed; and a killed
\* process never runs again.
C3_TeardownKillsProcess ==
    /\ []((SuccessfulStart /\ teardownCalls = 0 /\ parentErr = "nil")
             => proc = "running")
    /\ ((SuccessfulStart /\ teardownCalls > 0) ~> proc = "killed")
    /\ [][proc = "killed" => proc' = "killed"]_vars

\* C3: a successful Start whose teardown was called, the caller's context
\* still live, and the process killed.
C3_Witness ==
    SuccessfulStart /\ teardownCalls > 0 /\ parentErr = "nil" /\ proc = "killed"

\* C4 as stated: whenever the caller calls the teardown Start handed back,
\* also after a failed Start, the call is safe (no panic), and on a scope
\* that is already done it changes nothing.
C4_Original ==
    [][CallTeardown =>
          (~panicked' /\ (Done(ctxErr) => UNCHANGED observable))]_vars

\* C4 as amended: Start's own cancel() on a failure path leaves a scope that
\* is already done as it is; the teardown a successful Start returned can be
\* called any number of times without a panic, and on a scope that is already
\* done the call changes nothing; after a failed Start the value handed back
\* is nil and calling it panics.
C4_TeardownIdempotent ==
    /\ [][(Start_LaunchFail \/ Start_CancelOnFail) =>
             (Done(ctxErr) => ctxErr' = ctxErr /\ proc' = proc)]_vars
    /\ [][CallTeardown =>
             IF retErr = ErrNil
                THEN ~panicked' /\ (Done(ctxErr) => UNCHANGED observable)
                ELSE panicked' /\ UNCHANGED observable]_vars

\* C4: the teardown of a successful Start was called a second time.
C4_Witness == SuccessfulStart /\ teardownCalls = 2 /\ ~panicked /\ Done(ctxErr)

\* The error of line 90: it names the readiness failure and holds the output.
FailedReadiness(e) == e.kind = "error starting server" /\ e.cause \in CtxErrors

\* C5 (its result): when the process was launched, no probe succeeded and
\* the caller's context became done, what Start returns is a FailedReadiness
\* error.
C5_Claim ==
    (ReadinessFailed /\ proc # "none" /\ Done(parentErr)) => FailedReadiness(retErr)

\* C6: when waitForStart is entered with a context that is already done, no
\* probe is ever issued and what it returns is the context's error.
C6_Claim ==
    enteredDone =>
        /\ probeCount = 0
        /\ pc \in {"waitFailed", "capture", "returned"} => waitErr = ctxErr

\* C10: when the readiness wait was aborted by the context, the error Start
\* returns has that context error as its cause, together with the captured
\* output.
C10_Claim ==
    ReadinessFailed =>
        /\ retErr.kind = "error starting server"
        /\ retErr.cause = waitErr
        /\ retErr.out \in Outputs

(***************************************************************************)
(* Properties of DownloadServer.                                           *)
(***************************************************************************)
DReturned == dpc = "returned"
Checksum(f) == Sprintf_x(Sum(f.data))
Supported(v) == v \in {Version114, Version115, Version116}

\* C2 as stated: after any failed call for a supported version the path
\* holds no file whose checksum differs from the expected one.
C2_Original ==
    (DReturned /\ Supported(version) /\ dErr # ErrNil)
        => (~file.exists \/ Checksum(file) = md5s(version))

\* C2 as amended: after the checksum-mismatch error the file is removed;
\* the other failures clean nothing up: after a creation failure the path is
\* as the call found it, after a transport failure it holds the empty file
\* just created or truncated, after an interrupted copy it holds the part of
\* the body written so far, and after a failed removal it holds the whole
\* mismatching body.
C2_FailureLeaves ==
    DReturned =>
        /\ dErr.kind = "invalid md5" => file = Absent
        /\ dErr.kind = "error creating file" => file = file0
        /\ dErr.kind = "unable to download" => file = Created(file0)
        /\ dErr.kind = "error saving download" =>
              /\ file.exists
              /\ \E k \in 0..Len(body) : file.data = SubSeq(body, 1, k)
        /\ dErr.kind = "invalid md5: error removing" =>
              /\ file.exists
              /\ file.data = body

\* C2: a call that found a file ended with the mismatch error.
C2_Witness == DReturned /\ dErr.kind = "invalid md5" /\ file0.exists /\ body # <<>>

\* C7: whenever DownloadServer returns nil, the file is there and its
\* checksum is the table's entry for the requested version.
C7_NilMeansVerified ==
    (DReturned /\ dErr = ErrNil)
        => (file.exists /\ Checksum(file) = md5s(version))

\* C7: nil after a download that replaced another file.
C7_Witness ==
    DReturned /\ dErr = ErrNil /\ netCalls = 1 /\ file0.exists /\ file0.data # file.data

\* C8: a call that follows a successful call for the same version returns
\* nil at once, issues no GET and leaves the file as it is, so the two calls
\* make at most the one transfer of the first; and so does every call that
\* finds a readable file with the matching checksum.
C8_SecondCallShortCircuits ==
    /\ (prev.ok /\ prev.version = version) =>
          /\ DReturned /\ dErr = ErrNil
          /\ netCalls = 0 /\ fsOps = 0 /\ file = file0
          /\ prev.gets + netCalls <= 1
    /\ (dpc # "idle" /\ Supported(version) /\ CanOpen(file0) /\ CanRead(file0)
           /\ Checksum(file0) = md5s(version)) =>
          /\ DReturned /\ dErr = ErrNil
          /\ netCalls = 0 /\ file = file0

\* C8: the second of two calls for one version, the first having downloaded.
C8_Witness ==
    DReturned /\ prev.ok /\ prev.version = version /\ prev.gets = 1 /\ netCalls = 0

\* C9: a call for a version that is not in the table returns the
\* unsupported-version error at once, having made no call that creates,
\* writes or removes a file and no GET; the file is as it was.
C9_UnsupportedTouchesNothing ==
    (dpc # "idle" /\ ~Supported(version)) =>
        /\ DReturned
        /\ dErr = Err("unsupported Tika version", version, "")
        /\ fsOps = 0 /\ netCalls = 0 /\ file = file0

\* C9: an unsupported version was asked for while a file was at the path.
C9_Witness == DReturned /\ ~Supported(version) /\ file0.exists

\* C11: when the GET ends in a transport failure or in a response that is
\* not a 2xx, DownloadServer returns the download error that wraps the cause,
\* and the file is as os.Create left it: not written with the body and not
\* removed.
C11_Claim ==
    (DReturned /\ netCalls = 1 /\ status # 200) =>
        /\ dErr.kind = "unable to download"
        /\ file = Created(file0)

(***************************************************************************)
(* Properties of validateFileMD5 and NewServer.                            *)
(***************************************************************************)
Readable(f) == CanOpen(f) /\ CanRead(f)

\* C12: validateFileMD5 returns (true, wantH) exactly when the file can be
\* read and the digest of its content is wantH; for a readable file with
\* another digest it returns false and that digest; for a file that cannot
\* be opened or read it returns false and the empty string.
C12_ValidateResult ==
    vRes # <<>> =>
        /\ (vRes = <<TRUE, vWant>>) <=> (Readable(vFile) /\ Checksum(vFile) = vWant)
        /\ (Readable(vFile) /\ Checksum(vFile) # vWant)
              => vRes = <<FALSE, Checksum(vFile)>>
        /\ ~Readable(vFile) => vRes = <<FALSE, "">>

\* C12: a file that is opened but cannot be read, holding content with the
\* wanted digest, was validated.
C12_Witness ==
    vRes # <<>> /\ vFile.exists /\ vFile.mode = "eio" /\ Checksum(vFile) = vWant

AllDigits(q) == Range(q) \subseteq {"8", "9"}
GivenPort == IF nsPort = <<>> THEN DefaultPort ELSE nsPort
Called == nsRes # NoServer

\* C13 as stated: NewServer fails exactly when jar is empty or the composed
\* URL does not parse, and otherwise the URL of the Server is
\* http://localhost:<port>, with 9998 for an empty port.
C13_Original ==
    Called =>
        /\ nsRes.err # "nil" <=> (nsJar = "" \/ ~url_Parse(Localhost \o GivenPort).ok)
        /\ nsRes.err = "nil" => nsRes.url = Localhost \o GivenPort

\* C13 as amended: NewServer fails exactly when jar is empty or the composed
\* URL does not parse; otherwise the URL of the Server is what the parsed
\* URL is written back as, which is http://localhost:<port> (9998 for an
\* empty port) when the port is made of digits, and never holds a bare "#"
\* after the one that starts the fragment.
C13_NewServerResult ==
    Called =>
        /\ nsRes.err # "nil" <=> (nsJar = "" \/ ~url_Parse(Localhost \o GivenPort).ok)
        /\ (nsRes.err = "nil" /\ AllDigits(GivenPort))
              => nsRes.url = Localhost \o GivenPort
        /\ nsRes.err = "nil" =>
              /\ nsRes.port = GivenPort
              /\ nsRes.url[1] = Localhost[1]
              /\ Cardinality({i \in 1..Len(nsRes.url) : nsRes.url[i] = "#"}) <= 1

\* C13: NewServer was given a jar and the empty port.
C13_Witness == Called /\ nsJar # "" /\ nsPort = <<>> /\ nsRes.err = "nil"

(***************************************************************************)
(* Further properties of Server.Start and Server.waitForStart.             *)
(***************************************************************************)
LaunchFailed == pc \notin {"idle", "cmdStart"} /\ proc = "none"

\* C14: when cmd.Start() fails, Start has called cancel() and returned the
\* launch error with a nil teardown in that same step, and no probe is
\* ever issued: a failed launch is never followed by the polling loop.
C14_LaunchFailureReturns ==
    LaunchFailed =>
        /\ Returned
        /\ retErr.kind = "launch"
        /\ retErr.cause \in LaunchErrors(ctxErr) \cup LaunchErrors(parentErr)
        /\ "launch" \in cancelBy
        /\ Done(ctxErr)
        /\ probeCount = 0

\* C14: the launch failed while the caller's context was still live.
C14_Witness == LaunchFailed /\ Returned /\ parentErr = "nil" /\ cancelBy = {"launch"}

Polling == pc \in {"select", "probe"}

\* C15: once the context is done the polling loop ends, and it ends with
\* the context's error: no probe succeeds after that, the loop's result is
\* ctx.Err(), and under the random choice of select among ready cases the
\* tick case is not chosen forever.
C15_CancellationNotMissed ==
    /\ [](waitErr \in CtxErrors => waitErr = ctxErr /\ ~Polling)
    /\ [][Polling /\ Done(ctxErr) /\ ~Polling' => waitErr' = ctxErr']_vars
    /\ (Polling /\ Done(ctxErr)) ~> (~Polling /\ waitErr = ctxErr)

\* C15: the context became done while the loop was polling (it was live at
\* entry and a probe had been made), and the loop ended with its error.
C15_Witness ==
    /\ ~enteredDone
    /\ probeCount > 0
    /\ waitErr \in CtxErrors
    /\ proc # "none"

LoopLeft == pc \in {"ready", "waitFailed", "capture", "returned"}

\* C16: Start returns a nil error only after the process was launched and
\* a probe succeeded; the loop returns nil at a successful probe and at
\* nothing else, no probe is issued after that, and a probe that does not
\* succeed leads only back to the select of the next iteration.
C16_ReadyOnlyAfterProbe ==
    /\ [](SuccessfulStart => proc # "none" /\ probeCount >= 1 /\ waitErr = "nil")
    /\ [][pc # "ready" /\ pc' = "ready" => pc = "probe" /\ VersionSucceeds]_vars
    /\ [][pc = "probe" /\ pc' # "probe" => pc' \in {"ready", "select"}]_vars
    /\ [][pc' = "probe" => pc \in {"select", "probe"}]_vars
    /\ [][LoopLeft => LoopLeft' /\ probeCount' = probeCount]_vars

\* C16: a start that succeeded at its second probe, the first having failed.
C16_Witness == SuccessfulStart /\ probeCount = 2 /\ proc = "running"

(***************************************************************************)
(* The verification step of DownloadServer.                                *)
(***************************************************************************)
\* The body is written in full and the file, read back, has another digest
\* than the one expected for the version.
WrittenMismatch ==
    /\ dpc = "validate"
    /\ file.data = body
    /\ Readable(file)
    /\ Checksum(file) # md5s(version)

\* C17: when the body is written in full and the digest of the file is not
\* the expected one, DownloadServer removes the file and returns "invalid
\* md5" with the digest the file had; when the removal fails the file
\* stays and the error carries both that digest and the removal error; it
\* never returns nil from there, and "invalid md5" alone is never returned
\* with the file still present.
C17_MismatchRemoves ==
    /\ [][WrittenMismatch /\ dpc' # dpc =>
            /\ dpc' = "returned"
            /\ dErr' # ErrNil
            /\ dErr'.cause = Checksum(file)
            /\ dErr'.cause # md5s(version)
            /\ IF dirWritable
                  THEN file' = Absent /\ dErr'.kind = "invalid md5"
                       /\ dErr'.out = ""
                  ELSE file' = file /\ dErr'.kind = "invalid md5: error removing"
                       /\ dErr'.out # ""]_vars
    /\ [](DReturned /\ dErr.kind = "invalid md5" => file = Absent)

\* C17: a non-empty body of the wrong digest was written, and the file is
\* gone at the return.
C17_Witness ==
    /\ DReturned
    /\ dErr.kind = "invalid md5"
    /\ dErr.cause = Checksum([data |-> body])
    /\ body # <<>>
    /\ file = Absent
    /\ netCalls = 1

(***************************************************************************)
(* The returns of Server.Start.                                            *)
(***************************************************************************)
CaptureError(e) == e.kind = "error reading output" /\ e.cause \notin CtxErrors /\ e.out = ""
Composite(e) == e.kind = "error starting server" /\ e.cause = waitErr /\ e.out \in Outputs

\* C18: when waitForStart has failed, cancel() is called before
\* cmd.CombinedOutput() is; when reading the output fails Start returns that
\* error alone, and when it succeeds Start returns the error made of
\* waitForStart's error and the output.
C18_TeardownThenCapture ==
    /\ [][pc = "waitFailed" /\ pc' # pc =>
            pc' = "capture" /\ "readiness" \in cancelBy' /\ Done(ctxErr')]_vars
    /\ [](pc = "capture" => "readiness" \in cancelBy /\ Done(ctxErr))
    /\ [][Start_CaptureFail => CaptureError(retErr')]_vars
    /\ [][Start_CaptureOk => Composite(retErr')]_vars
    /\ [][pc = "capture" /\ pc' # pc =>
            pc' = "returned" /\ (CaptureError(retErr') \/ Composite(retErr'))]_vars
    /\ [](ReadinessFailed =>
            "readiness" \in cancelBy /\ (CaptureError(retErr) \/ Composite(retErr)))

\* C18: the output was read after the teardown and is part of the error.
C18_Witness ==
    /\ ReadinessFailed
    /\ Composite(retErr)
    /\ retErr.out # ""
    /\ cancelBy = {"readiness"}

\* C19: every return of Start hands back either cancel and a nil error, or
\* a nil teardown and an error, never both and never neither; before the
\* return nothing is handed back.
C19_TeardownXorError ==
    /\ Returned =>
          /\ retErr # ErrUnset
          /\ retCancel \in {"nil", "cancel"}
          /\ (retErr = ErrNil) <=> (retCancel = "cancel")
          /\ (retErr # ErrNil) <=> (retCancel = "nil")
    /\ ~Returned => retErr = ErrUnset

\* C19: a failure after the launch, where a cancel function existed and the
\* one handed back is nil.
C19_Witness ==
    /\ FailedStart
    /\ retCancel = "nil"
    /\ CaptureError(retErr)
    /\ proc # "none"

\* C20: the context the command runs under is derived from the caller's:
\* from its creation on it is done whenever the caller's is, and after a
\* successful Start the end of the caller's context gets the process
\* killed, also when the returned teardown is never called.
C20_ParentCancelKills ==
    /\ [](pc # "idle" /\ Done(parentErr) => Done(ctxErr))
    /\ [][SuccessfulStart /\ ~Done(parentErr) /\ Done(parentErr') =>
            Done(ctxErr') /\ (ctxErr = "nil" => ctxErr' = parentErr')]_vars
    /\ (SuccessfulStart /\ Done(parentErr)) ~> (proc = "killed")

\* C20: the process of a successful Start was killed by the deadline of the
\* caller's context; the teardown was never called.
C20_Witness ==
    /\ SuccessfulStart
    /\ parentErr = "context deadline exceeded"
    /\ ctxErr = parentErr
    /\ teardownCalls = 0
    /\ proc = "killed"

====
